---- MODULE Spec2Model ----
(***************************************************************************)
(* Model of UniversalFrameworkTester (src/universal-framework-tester.ts):  *)
(* the tracked-process map, startFrameworkServer and its readiness poller, *)
(* testFramework with its retry loop, testAllFrameworks, cleanupFramework, *)
(* stopAllServers and runFullTest, driven by a client that calls the       *)
(* public methods one after another.                                       *)
(*                                                                         *)
(* A process record holds what the ChildProcess handle and the operating   *)
(* system know about one spawned process:                                  *)
(*   os       "starting" (alive, port closed), "listening" (alive, port    *)
(*            open), "zombie" (terminated, 'exit' not yet emitted),        *)
(*            "exited" ('exit' emitted, handle closed), "failed" (spawn    *)
(*            error emitted, handle closed)                                *)
(*   killed   ChildProcess.killed: a kill() call delivered a signal        *)
(*   sigs     the signals the tester has asked for, in order: kill() calls *)
(*            on the handle (a call on a closed handle is recorded too,    *)
(*            it delivers nothing) and `kill -9` of forceCleanupProcesses  *)
(*   promise  state of the promise startFrameworkServer returned           *)
(*   scheduled / checkAttempts   the checkServerReady timer and counter    *)
(***************************************************************************)
EXTENDS Integers, Sequences, FiniteSets, TLC

\* ------------------------------------------------------------------ bounds
MaxTargets == 2
MaxProcs == 2
MaxCalls == 3
MaxRetriesArg == 2
PollWindow == 2

\* ------------------------------------------------------- program constants
maxAttempts == 250
DefaultMaxRetries == 2
MinRequests == 10
MaxErrorRate == 50
BackoffUnit == 2000
FirstPollDelay == 1000
PollInterval == 100

\* frameworkConfigs, in configuration order (the first MaxTargets of them)
AllConfigs == <<"elysia", "hono", "express", "koa", "vafast-mini", "vafast">>
frameworkConfigs == SubSeq(AllConfigs, 1, MaxTargets)
Names == {frameworkConfigs[i] : i \in 1..Len(frameworkConfigs)}

Alive == {"starting", "listening"}

\* ------------------------------------------------------------- JS values
\* Arguments keep their JavaScript type until the code coerces them.
JSUndefined == [t |-> "undefined", b |-> FALSE, n |-> 0]
JSBool(x) == [t |-> "boolean", b |-> x, n |-> 0]
JSNum(x) == [t |-> "number", b |-> FALSE, n |-> x]

\* a default parameter value applies when the argument is undefined
DefaultParam(v, d) == IF v.t = "undefined" THEN d ELSE v

\* ToNumber of the relational operators: true -> 1, false -> 0
ToNumber(v) == IF v.t = "boolean" THEN (IF v.b THEN 1 ELSE 0) ELSE v.n

\* ToBoolean of `if (!manualStart)`
ToBoolean(v) == IF v.t = "boolean" THEN v.b ELSE (v.t = "number" /\ v.n # 0)

VARIABLES procs, serverProcesses, tf, all, stop, cl, client, available, batch,
          rq, run, mt, sc, k6, bench, rep

\* the tester's processes, calls and loops
tester == <<procs, serverProcesses, tf, all, stop, cl, client, available, batch>>

\* the start of a load run at the scale of the code (sc), one run of
\* run-k6-tests.js (k6), one run of K6BenchmarkRunner (bench) and the reports
\* of one batch test (rep)
others == <<sc, k6, bench, rep>>

\* one HTTP request (rq), one load run (run), one metrics computation (mt)
\* and the others: each is followed in a specification of its own
parts == <<rq, run, mt, others>>

vars == <<procs, serverProcesses, tf, all, stop, cl, client, available, batch, rq, run, mt,
          sc, k6, bench, rep>>

Pids == 1..Len(procs)

\* ----------------------------------------------------------- ChildProcess
\* subprocess.kill(sig): delivers the signal while the handle is open and
\* then sets `killed`; once the handle is closed it returns false, delivers
\* nothing and leaves `killed` alone (the call is still recorded in sigs).
\* SIGKILL terminates a live process at once.
Kill(ps, p, sig) ==
  [ps EXCEPT ![p] =
     [@ EXCEPT !.sigs = Append(@, sig),
               !.killed = IF ps[p].os \in Alive \cup {"zombie"} THEN TRUE ELSE @,
               !.os = IF sig = "SIGKILL" /\ ps[p].os \in Alive THEN "zombie" ELSE @]]

\* a request to the port of target n is answered iff a live process of that
\* target listens
PortOpen(ps, n) == \E p \in 1..Len(ps) : ps[p].name = n /\ ps[p].os = "listening"


\* ------------------------------------------------------------ environment
\* A starting process opens its port. While its start promise is pending
\* this happens before poll number PollWindow or not at all.
InWindow(p) == procs[p].promise = "pending" => procs[p].checkAttempts < PollWindow

ProcListen(p) ==
  /\ procs[p].os = "starting"
  /\ procs[p].sigs = <<>>
  /\ InWindow(p)
  /\ procs' = [procs EXCEPT ![p].os = "listening"]
  /\ UNCHANGED <<serverProcesses, tf, all, stop, cl, client, available, batch>>

\* exit codes a process can end with: null when a signal ended it
ExitCodes(p) ==
  IF procs[p].os = "zombie" THEN {"null"}
  ELSE IF procs[p].sigs # <<>> THEN {"null", "0", "1"}
  ELSE {"0", "1"}

\* serverProcess.on("exit", (code) => ...) of startFrameworkServer
StartOnExit(pr, code) ==
  IF code # "null" /\ code # "0" /\ pr.promise = "pending"
  THEN [pr EXCEPT !.promise = "rejected"]
  ELSE pr

\* The process ends and Node emits 'exit': the handle closes and every
\* listener registered on it runs (startFrameworkServer's, the pending
\* cleanupFramework's, the pending stopAllServers closure's).
ExitEvent(p) ==
  /\ procs[p].os \in Alive \cup {"zombie"}
  /\ (procs[p].os \in Alive /\ procs[p].sigs = <<>>) => InWindow(p)
  /\ \E code \in ExitCodes(p) :
       procs' = [procs EXCEPT ![p] = [StartOnExit(@, code) EXCEPT !.os = "exited"]]
  /\ cl' = IF cl.pc = "wait" /\ cl.proc = p THEN [cl EXCEPT !.pc = "done"] ELSE cl
  /\ stop' = [stop EXCEPT !.pending = @ \ {p}]
  /\ UNCHANGED <<serverProcesses, tf, all, client, available, batch>>

\* --------------------------------------------------- startFrameworkServer
\* cold-start time observed by the poll that succeeds: the first poll runs
\* FirstPollDelay after the spawn, each later one PollInterval after the
\* previous one
ColdStart(checkAttempts) == FirstPollDelay + PollInterval * (checkAttempts - 1)

NewProc(n, ok) ==
  [name |-> n, os |-> IF ok THEN "starting" ELSE "failed", killed |-> FALSE,
   sigs |-> <<>>, promise |-> IF ok THEN "pending" ELSE "rejected",
   scheduled |-> TRUE, checkAttempts |-> 0]

\* spawn(), serverProcesses.set(), setTimeout(checkServerReady, 1000); a
\* failed spawn emits 'error', which rejects the promise
startFrameworkServer(n) ==
  /\ tf[n].pc = "start"
  /\ Len(procs) < MaxProcs
  /\ \E ok \in BOOLEAN : procs' = Append(procs, NewProc(n, ok))
  /\ serverProcesses' = [serverProcesses EXCEPT ![n] = Len(procs) + 1]
  /\ tf' = [tf EXCEPT ![n].pc = "awaitStart", ![n].proc = Len(procs) + 1]
  /\ UNCHANGED <<all, stop, cl, client, available, batch>>

\* faulty variant of Settle: resolve() and reject() are forgotten
SettleNever(pr, outcome) == pr

Settle(pr, outcome) == IF pr.promise = "pending" THEN [pr EXCEPT !.promise = outcome] ELSE pr

\* The poller of a promise that an 'error' or 'exit' event has already
\* rejected keeps running; its process is dead and its counter is no longer
\* followed: any of its callbacks may be the one that finds the budget used.
BudgetUsed(pr) ==
  IF pr.promise = "pending" THEN {pr.checkAttempts >= maxAttempts} ELSE BOOLEAN

\* one run of the checkServerReady timer callback of process p
checkServerReady(p) ==
  /\ procs[p].scheduled
  /\ \E used \in BudgetUsed(procs[p]) :
       IF used
       THEN procs' = [Kill(procs, p, "SIGTERM") EXCEPT
                        ![p] = [Settle(@, "rejected") EXCEPT !.scheduled = FALSE]]
       ELSE IF PortOpen(procs, procs[p].name)
       THEN procs' = [procs EXCEPT
                        ![p] = [Settle(@, "resolved") EXCEPT
                                  !.scheduled = FALSE,
                                  !.checkAttempts = IF procs[p].promise = "pending" THEN @ + 1 ELSE @]]
       ELSE procs' = [procs EXCEPT
                        ![p].checkAttempts = IF procs[p].promise = "pending" THEN @ + 1 ELSE @]
  /\ UNCHANGED <<serverProcesses, tf, all, stop, cl, client, available, batch>>

\* ------------------------------------------------------------ testFramework
NullResult ==
  [ok |-> FALSE, framework |-> "", coldStartTime |-> 0, totalRequests |-> 0, errorRequests |-> 0]

Metrics(n, cold, out) ==
  [ok |-> TRUE, framework |-> n, coldStartTime |-> cold,
   totalRequests |-> out[1], errorRequests |-> out[2]]

IdleTask ==
  [pc |-> "idle", attempt |-> 0, maxRetries |-> JSUndefined, manualStart |-> JSUndefined,
   coldStartTime |-> 0, proc |-> 0, backoffs |-> <<>>, ret |-> NullResult]

\* entry of testFramework(frameworkName, testDuration, maxRetries, manualStart)
\* with its parameter defaults; an unavailable framework returns null at once
testFrameworkEntry(n, mr, ms, avail) ==
  [IdleTask EXCEPT
     !.pc = IF n \in avail THEN "attempt" ELSE "done",
     !.attempt = 1,
     !.maxRetries = DefaultParam(mr, JSNum(DefaultMaxRetries)),
     !.manualStart = DefaultParam(ms, JSBool(FALSE))]

\* faulty variant of ThrowInTry: the error escapes testFramework
ThrowEscapes == "thrown"

\* where an error thrown inside the try block of the attempt loop goes
ThrowInTry == "catch"

\* outcomes of runPerformanceTest as <<successRequests, errorRequests>>
LoadOutcomes == {<<0, 12>>, <<9, 0>>, <<10, 11>>, <<10, 10>>, <<12, 0>>}

\* loop head `attempt <= maxRetries`, then the branch on manualStart: the
\* pre-clean of a tracked live process, or the manual-mode health check
tfAttempt(n) ==
  /\ tf[n].pc = "attempt"
  /\ IF ~(tf[n].attempt <= ToNumber(tf[n].maxRetries))
     THEN /\ tf' = [tf EXCEPT ![n].pc = "done", ![n].ret = NullResult]
          /\ UNCHANGED <<procs, serverProcesses>>
     ELSE IF ~ToBoolean(tf[n].manualStart)
     THEN LET existing == serverProcesses[n] IN
          /\ IF existing # 0 /\ ~procs[existing].killed
             THEN /\ procs' = Kill(procs, existing, "SIGKILL")
                  /\ serverProcesses' = [serverProcesses EXCEPT ![n] = 0]
             ELSE UNCHANGED <<procs, serverProcesses>>
          /\ tf' = [tf EXCEPT ![n].pc = "start", ![n].coldStartTime = 0]
     ELSE /\ \E success \in BOOLEAN :
               tf' = [tf EXCEPT ![n].pc = IF success THEN "ready" ELSE ThrowInTry,
                                ![n].coldStartTime = 0]
          /\ UNCHANGED <<procs, serverProcesses>>
  /\ UNCHANGED <<all, stop, cl, client, available, batch>>

\* `coldStartTime = await this.startFrameworkServer(config)`
tfAwaitStart(n) ==
  /\ tf[n].pc = "awaitStart"
  /\ procs[tf[n].proc].promise # "pending"
  /\ tf' = IF procs[tf[n].proc].promise = "resolved"
           THEN [tf EXCEPT ![n].pc = "ready",
                           ![n].coldStartTime = ColdStart(procs[tf[n].proc].checkAttempts)]
           ELSE [tf EXCEPT ![n].pc = ThrowInTry]
  /\ UNCHANGED <<procs, serverProcesses, all, stop, cl, client, available, batch>>

\* warm-up request, runPerformanceTest and the validity gates
tfLoad(n) ==
  /\ tf[n].pc = "ready"
  /\ \E out \in LoadOutcomes :
       /\ (~ToBoolean(tf[n].manualStart) /\ ~PortOpen(procs, n)) => out[1] = 0
       /\ tf' = IF \/ out[1] = 0
                   \/ out[1] < MinRequests
                   \/ out[2] * 100 > MaxErrorRate * (out[1] + out[2])
                THEN [tf EXCEPT ![n].pc = ThrowInTry]
                ELSE [tf EXCEPT ![n].pc = "done",
                                ![n].ret = Metrics(n, tf[n].coldStartTime, out)]
  /\ UNCHANGED <<procs, serverProcesses, all, stop, cl, client, available, batch>>

\* faulty variant of CatchKill: the catch block leaves the process alone
CatchKillSkipped(ps, process) == ps

\* `if (process && !process.killed) process.kill("SIGKILL")` of the catch block
CatchKill(ps, process) ==
  IF process # 0 /\ ~ps[process].killed THEN Kill(ps, process, "SIGKILL") ELSE ps

\* faulty variant of NeedsBackoff: a backoff follows the last attempt too
NeedsBackoffAlways(attempt, maxRetries) == attempt <= ToNumber(maxRetries)

\* `if (attempt < maxRetries)`: a backoff follows only when another attempt does
NeedsBackoff(attempt, maxRetries) == attempt < ToNumber(maxRetries)

\* the catch block: kill and untrack the process in automatic mode, back off
\* when another attempt follows, then attempt++
tfCatch(n) ==
  /\ tf[n].pc = "catch"
  /\ IF ~ToBoolean(tf[n].manualStart)
     THEN /\ procs' = CatchKill(procs, serverProcesses[n])
          /\ serverProcesses' = [serverProcesses EXCEPT ![n] = 0]
     ELSE UNCHANGED <<procs, serverProcesses>>
  /\ tf' = [tf EXCEPT
              ![n].pc = "attempt",
              ![n].backoffs = IF NeedsBackoff(tf[n].attempt, tf[n].maxRetries)
                              THEN Append(@, tf[n].attempt * BackoffUnit) ELSE @,
              ![n].attempt = @ + 1]
  /\ UNCHANGED <<all, stop, cl, client, available, batch>>


\* -------------------------------------------------------- cleanupFramework
IdleCleanup == [pc |-> "idle", proc |-> 0]

\* cleanupFramework(name) up to its first suspension: for a tracked process
\* with `killed` unset it registers the exit listener and the 2 s timer,
\* sends SIGTERM and returns the promise; otherwise it untracks the name
cleanupFrameworkEntry(n) ==
  LET serverProcess == serverProcesses[n] IN
  IF serverProcess # 0 /\ ~procs[serverProcess].killed
  THEN /\ procs' = Kill(procs, serverProcess, "SIGTERM")
       /\ cl' = [pc |-> "wait", proc |-> serverProcess]
       /\ UNCHANGED serverProcesses
  ELSE /\ serverProcesses' = [serverProcesses EXCEPT ![n] = 0]
       /\ cl' = [pc |-> "done", proc |-> 0]
       /\ UNCHANGED procs

\* the 2 s timer of cleanupFramework: SIGKILL, then resolve
cleanupTimeout ==
  /\ cl.pc = "wait"
  /\ procs' = Kill(procs, cl.proc, "SIGKILL")
  /\ cl' = [cl EXCEPT !.pc = "done"]
  /\ UNCHANGED <<serverProcesses, tf, all, stop, client, available, batch>>

\* ------------------------------------------------------- testAllFrameworks
RECURSIVE FilterSeq(_, _)
FilterSeq(seq, keep) ==
  IF seq = <<>> THEN <<>>
  ELSE (IF Head(seq) \in keep THEN <<Head(seq)>> ELSE <<>>) \o FilterSeq(Tail(seq), keep)

\* frameworkConfigs.filter(checkFrameworkAvailable)
availableFrameworks == FilterSeq(frameworkConfigs, available)

IdleAll == [pc |-> "idle", idx |-> 0, results |-> <<>>, manualStart |-> JSUndefined]

\* entry of testAllFrameworks(testDuration, manualStart)
testAllFrameworksEntry(ms) ==
  [pc |-> IF Len(availableFrameworks) = 0 THEN "done" ELSE "call",
   idx |-> 1, results |-> <<>>, manualStart |-> DefaultParam(ms, JSBool(FALSE))]

\* `await this.testFramework(...)`: the loop goes on once the call has returned
TestReturned(n) == tf[n].pc = "done"

\* `this.testFramework(config.name, testDuration, manualStart)`: manualStart
\* is the third argument, the fourth is left out
allCall ==
  /\ all.pc = "call"
  /\ LET n == availableFrameworks[all.idx] IN
       tf' = [tf EXCEPT ![n] = testFrameworkEntry(n, all.manualStart, JSUndefined, available)]
  /\ all' = [all EXCEPT !.pc = "await"]
  /\ UNCHANGED <<procs, serverProcesses, stop, cl, client, available, batch>>

AllAdvance(a) ==
  IF a.idx < Len(availableFrameworks)
  THEN [a EXCEPT !.pc = "call", !.idx = @ + 1]
  ELSE [a EXCEPT !.pc = "done"]

\* the await returns: push a non-null result, then clean up in automatic
\* mode; an error escaping testFramework leaves the loop
allAwait ==
  /\ all.pc = "await"
  /\ LET n == availableFrameworks[all.idx] IN
       \/ /\ TestReturned(n)
          /\ tf[n].pc # "thrown"
          /\ tf' = [tf EXCEPT ![n] = IF @.pc = "done" THEN IdleTask ELSE @]
          /\ LET a == [all EXCEPT !.results = IF tf[n].ret.ok THEN Append(@, tf[n].ret) ELSE @] IN
               IF ~ToBoolean(all.manualStart)
               THEN /\ all' = [a EXCEPT !.pc = "cleanup"]
                    /\ cleanupFrameworkEntry(n)
               ELSE /\ all' = AllAdvance(a)
                    /\ UNCHANGED <<procs, serverProcesses, cl>>
       \/ /\ tf[n].pc = "thrown"
          /\ tf' = [tf EXCEPT ![n] = IdleTask]
          /\ all' = [all EXCEPT !.pc = "thrown"]
          /\ UNCHANGED <<procs, serverProcesses, cl>>
  /\ UNCHANGED <<stop, client, available, batch>>

\* cleanupFramework has resolved; after the 5 s pause the loop goes on
allCleaned ==
  /\ all.pc = "cleanup"
  /\ cl.pc = "done"
  /\ cl' = IdleCleanup
  /\ all' = AllAdvance(all)
  /\ UNCHANGED <<procs, serverProcesses, tf, stop, client, available, batch>>

\* ---------------------------------------------------------- stopAllServers
IdleStop == [pc |-> "idle", pending |-> {}]

RECURSIVE KillAll(_, _, _)
KillAll(ps, set, sig) ==
  IF set = {} THEN ps
  ELSE LET p == CHOOSE x \in set : TRUE IN KillAll(Kill(ps, p, sig), set \ {p}, sig)

\* the tracked processes whose closure goes past `if (process.killed) return`
StopTargets == {serverProcesses[n] : n \in {m \in Names : serverProcesses[m] # 0 /\ ~procs[serverProcesses[m]].killed}}

\* the synchronous part of stopAllServers: every closure sends SIGTERM and
\* starts to wait for 'exit' or its 5 s timer
stopAllServersEntry ==
  /\ procs' = KillAll(procs, StopTargets, "SIGTERM")
  /\ stop' = [pc |-> "wait", pending |-> StopTargets]

\* the 5 s timer of one closure
stopTimeout(p) ==
  /\ stop.pc = "wait"
  /\ p \in stop.pending
  /\ procs' = IF ~procs[p].killed THEN Kill(procs, p, "SIGKILL") ELSE procs
  /\ stop' = [stop EXCEPT !.pending = @ \ {p}]
  /\ UNCHANGED <<serverProcesses, tf, all, cl, client, available, batch>>

\* faulty variant of ClearedMap: the map is left as it is
MapNotCleared == serverProcesses

\* `this.serverProcesses.clear()`
ClearedMap == [n \in Names |-> 0]

\* Promise.allSettled has returned: the map is cleared
stopClear ==
  /\ stop.pc = "wait"
  /\ stop.pending = {}
  /\ serverProcesses' = ClearedMap
  /\ stop' = [stop EXCEPT !.pc = "force"]
  /\ UNCHANGED <<procs, tf, all, cl, client, available, batch>>

\* `kill -9 pid` from the shell: the signal is delivered, the handle's
\* `killed` flag is not touched
ShellKill9(ps, set) ==
  [p \in 1..Len(ps) |->
     IF p \in set THEN [ps[p] EXCEPT !.sigs = Append(@, "SIGKILL"), !.os = "zombie"] ELSE ps[p]]

\* forceCleanupProcesses after the 2 s pause: every live `bun ... src/index.ts`
\* process that ps lists is killed
forceCleanupProcesses ==
  /\ stop.pc = "force"
  /\ procs' = ShellKill9(procs, {p \in Pids : procs[p].os \in Alive})
  /\ stop' = [stop EXCEPT !.pc = "done"]
  /\ UNCHANGED <<serverProcesses, tf, all, cl, client, available, batch>>

\* ------------------------------------------- BatchFrameworkTester.runBatchTest
\* The batch tester is a class of its own with its own target list; it never
\* spawns: testFramework checks health, warms up, runs the load and returns
\* the metrics or, from its catch block, null.
AllBatchConfigs == <<"elysia", "hono", "express", "koa", "vafast", "vafast-mini">>
batchFrameworkConfigs == SubSeq(AllBatchConfigs, 1, MaxTargets)
BatchNames == {batchFrameworkConfigs[i] : i \in 1..Len(batchFrameworkConfigs)}

IdleBatchTask == [pc |-> "idle", ret |-> NullResult]
IdleBatch == [pc |-> "idle", idx |-> 0, results |-> <<>>, tasks |-> [n \in BatchNames |-> IdleBatchTask]]

\* `await this.testFramework(config, ...)` of runBatchTest
BatchTestReturned(n) == batch.tasks[n].pc = "done"

batchCall ==
  /\ batch.pc = "call"
  /\ batch' = [batch EXCEPT !.pc = "await",
                            !.tasks[batchFrameworkConfigs[batch.idx]] = [pc |-> "health", ret |-> NullResult]]
  /\ UNCHANGED <<procs, serverProcesses, tf, all, stop, cl, client, available>>

\* healthCheck(port): a failed check throws into the catch block
batchHealthCheck(n) ==
  /\ batch.tasks[n].pc = "health"
  /\ \E success \in BOOLEAN :
       batch' = [batch EXCEPT !.tasks[n].pc = IF success THEN "ready" ELSE "done"]
  /\ UNCHANGED <<procs, serverProcesses, tf, all, stop, cl, client, available>>

\* warm-up, runPerformanceTest and the validity gates
batchLoad(n) ==
  /\ batch.tasks[n].pc = "ready"
  /\ \E out \in LoadOutcomes :
       batch' = [batch EXCEPT
                   !.tasks[n] = IF \/ out[1] = 0
                                   \/ out[1] < MinRequests
                                   \/ out[2] * 100 > MaxErrorRate * (out[1] + out[2])
                                THEN [pc |-> "done", ret |-> NullResult]
                                ELSE [pc |-> "done", ret |-> Metrics(n, 0, out)]]
  /\ UNCHANGED <<procs, serverProcesses, tf, all, stop, cl, client, available>>

batchAwait ==
  /\ batch.pc = "await"
  /\ LET n == batchFrameworkConfigs[batch.idx] IN
       /\ BatchTestReturned(n)
       /\ batch' = [batch EXCEPT
                      !.results = IF batch.tasks[n].ret.ok THEN Append(@, batch.tasks[n].ret) ELSE @,
                      !.tasks[n] = IF @.pc = "done" THEN IdleBatchTask ELSE @,
                      !.pc = IF batch.idx < Len(batchFrameworkConfigs) THEN "call" ELSE "done",
                      !.idx = IF batch.idx < Len(batchFrameworkConfigs) THEN @ + 1 ELSE @]
  /\ UNCHANGED <<procs, serverProcesses, tf, all, stop, cl, client, available>>

\* ------------------------------------------------------------------ client
\* The caller of the public methods: one call at a time, MaxCalls in all.
\* `prevStop` says that the call completed last ended with stopAllServers.
MaxRetriesArgs == {JSUndefined} \cup {JSNum(k) : k \in 0..MaxRetriesArg}
ManualStartArgs == {JSUndefined, JSBool(FALSE), JSBool(TRUE)}

CallTestFramework(n, mr, ms) ==
  /\ client.pc = "idle"
  /\ client.calls < MaxCalls
  /\ tf' = [tf EXCEPT ![n] = testFrameworkEntry(n, mr, ms, available)]
  /\ client' = [client EXCEPT !.pc = "testFramework", !.n = n, !.calls = @ + 1]
  /\ UNCHANGED <<procs, serverProcesses, all, stop, cl, available, batch>>

ReturnTestFramework ==
  /\ client.pc = "testFramework"
  /\ tf[client.n].pc \in {"done", "thrown"}
  /\ tf' = [tf EXCEPT ![client.n] = IdleTask]
  /\ client' = [client EXCEPT !.pc = "idle", !.n = frameworkConfigs[1], !.prevStop = FALSE]
  /\ UNCHANGED <<procs, serverProcesses, all, stop, cl, available, batch>>

CallTestAllFrameworks(ms) ==
  /\ client.pc = "idle"
  /\ client.calls < MaxCalls
  /\ all' = testAllFrameworksEntry(ms)
  /\ client' = [client EXCEPT !.pc = "testAllFrameworks", !.calls = @ + 1]
  /\ UNCHANGED <<procs, serverProcesses, tf, stop, cl, available, batch>>

ReturnTestAllFrameworks ==
  /\ client.pc = "testAllFrameworks"
  /\ all.pc \in {"done", "thrown"}
  /\ all' = IdleAll
  /\ client' = [client EXCEPT !.pc = "idle", !.prevStop = FALSE]
  /\ UNCHANGED <<procs, serverProcesses, tf, stop, cl, available, batch>>

CallStopAllServers ==
  /\ client.pc = "idle"
  /\ client.calls < MaxCalls
  /\ stopAllServersEntry
  /\ client' = [client EXCEPT !.pc = "stopAllServers", !.calls = @ + 1]
  /\ UNCHANGED <<serverProcesses, tf, all, cl, available, batch>>

ReturnStopAllServers ==
  /\ client.pc = "stopAllServers"
  /\ stop.pc = "done"
  /\ stop' = IdleStop
  /\ client' = [client EXCEPT !.pc = "idle", !.prevStop = TRUE]
  /\ UNCHANGED <<procs, serverProcesses, tf, all, cl, available, batch>>

\* runFullTest(testDuration): try { testAllFrameworks(testDuration) }
\* finally { stopAllServers() }
CallRunFullTest ==
  /\ client.pc = "idle"
  /\ client.calls < MaxCalls
  /\ all' = testAllFrameworksEntry(JSUndefined)
  /\ client' = [client EXCEPT !.pc = "runFullTest", !.calls = @ + 1]
  /\ UNCHANGED <<procs, serverProcesses, tf, stop, cl, available, batch>>

runFullTestFinally ==
  /\ client.pc = "runFullTest"
  /\ all.pc \in {"done", "thrown"}
  /\ all' = IdleAll
  /\ stopAllServersEntry
  /\ client' = [client EXCEPT !.pc = "runFullTestFinally"]
  /\ UNCHANGED <<serverProcesses, tf, cl, available, batch>>

ReturnRunFullTest ==
  /\ client.pc = "runFullTestFinally"
  /\ stop.pc = "done"
  /\ stop' = IdleStop
  /\ client' = [client EXCEPT !.pc = "idle", !.prevStop = TRUE]
  /\ UNCHANGED <<procs, serverProcesses, tf, all, cl, available, batch>>

\* The batch tester shares no state with the universal tester, so its run is
\* followed from the initial state only.
CallRunBatchTest ==
  /\ client.pc = "idle"
  /\ client.calls = 0
  /\ batch' = [IdleBatch EXCEPT !.pc = "call", !.idx = 1]
  /\ client' = [client EXCEPT !.pc = "runBatchTest", !.calls = @ + 1]
  /\ UNCHANGED <<procs, serverProcesses, tf, all, stop, cl, available>>

ReturnRunBatchTest ==
  /\ client.pc = "runBatchTest"
  /\ batch.pc = "done"
  /\ batch' = IdleBatch
  /\ client' = [client EXCEPT !.pc = "idle", !.prevStop = FALSE]
  /\ UNCHANGED <<procs, serverProcesses, tf, all, stop, cl, available>>

\* ------------------------------------------- sendRequest / sendHealthCheck
\* One HTTP request of the tester, from http.request() to the last event of
\* its socket. Time is counted in ticks of 1000 ms.
MaxElapsed == 7

HealthCheckTimeout == 2000
RequestTimeout == 5000

Ms(ticks) == ticks * 1000

\* sendHealthCheck and sendRequest of the universal tester (the batch tester's
\* sendRequest is the same code), and the batch tester's healthCheck, which
\* awaits its sendRequest and returns result.success
RequestKinds == {"sendHealthCheck", "sendRequest", "healthCheck"}

\* response status codes around the edges of the accepted ranges
StatusCodes == {199, 200, 299, 300, 404, 499, 500}

\* options.timeout of the request
Timeout(kind) == IF kind = "sendHealthCheck" THEN HealthCheckTimeout ELSE RequestTimeout

\* the `success` a response with this status gives
AcceptStatus(kind, status) ==
  IF kind = "sendHealthCheck"
  THEN status >= 200 /\ status < 500
  ELSE status >= 200 /\ status < 300

NoRecord == [latency |-> 0, success |-> FALSE]

IdleRequest ==
  [pc |-> "idle", kind |-> "none", elapsed |-> 0, idleSince |-> 0, response |-> 0,
   ended |-> FALSE, errored |-> FALSE, timedOut |-> FALSE, destroyed |-> FALSE,
   resolves |-> 0, promise |-> "pending", value |-> NoRecord, by |-> "none", ret |-> "none"]

\* resolve(record) of the promise: the first call settles it, later calls
\* change nothing
Resolve(r, record, event) ==
  [r EXCEPT !.resolves = @ + 1,
            !.promise = IF @ = "pending" THEN "resolved" ELSE @,
            !.value = IF r.promise = "pending" THEN record ELSE @,
            !.by = IF r.promise = "pending" THEN event ELSE @]

\* `const latency = performance.now() - startTime`
Latency(r) == Ms(r.elapsed)

\* the socket's idle timer has run out and 'timeout' was not emitted yet
TimeoutDue(r) == ~r.timedOut /\ Ms(r.elapsed - r.idleSince) >= Timeout(r.kind)

\* new Promise((resolve) => { ... http.request(options, cb) ... req.end() })
CallRequest(kind) ==
  /\ rq.pc = "idle"
  /\ rq' = [IdleRequest EXCEPT !.pc = "open", !.kind = kind]
  /\ UNCHANGED <<tester, run, mt, others>>

\* time passes; a due 'timeout' is emitted before more time passes
RequestTick ==
  /\ rq.pc = "open"
  /\ rq.elapsed < MaxElapsed
  /\ ~TimeoutDue(rq)
  /\ rq' = [rq EXCEPT !.elapsed = @ + 1]
  /\ UNCHANGED <<tester, run, mt, others>>

\* the response callback: the status line and headers have arrived
ResponseCallback(status) ==
  /\ rq.pc = "open"
  /\ rq.response = 0
  /\ ~rq.destroyed /\ ~rq.errored
  /\ rq' = [rq EXCEPT !.response = status, !.idleSince = rq.elapsed]
  /\ UNCHANGED <<tester, run, mt, others>>

\* res.on("end")
ResponseEnd ==
  /\ rq.pc = "open"
  /\ rq.response # 0
  /\ ~rq.ended /\ ~rq.destroyed /\ ~rq.errored
  /\ rq' = [Resolve(rq, [latency |-> Latency(rq), success |-> AcceptStatus(rq.kind, rq.response)], "end")
              EXCEPT !.ended = TRUE]
  /\ UNCHANGED <<tester, run, mt, others>>

\* faulty variant of OnError: the error handler rejects
OnErrorRejects(r) == [r EXCEPT !.promise = IF @ = "pending" THEN "rejected" ELSE @]

\* req.on("error", () => resolve({ latency, success: false }))
OnError(r) == Resolve(r, [latency |-> Latency(r), success |-> FALSE], "error")

\* 'error' is emitted (connection refused or reset, or the socket hang up
\* that follows req.destroy()); the socket is closed after it
ErrorEvent ==
  /\ rq.pc = "open"
  /\ ~rq.errored
  /\ rq' = [OnError(rq) EXCEPT !.errored = TRUE, !.pc = "closed"]
  /\ UNCHANGED <<tester, run, mt, others>>

\* req.on("timeout", () => { req.destroy(); resolve({ latency, success: false }) })
TimeoutEvent ==
  /\ rq.pc = "open"
  /\ TimeoutDue(rq)
  /\ rq' = [Resolve(rq, [latency |-> Latency(rq), success |-> FALSE], "timeout")
              EXCEPT !.timedOut = TRUE, !.destroyed = TRUE]
  /\ UNCHANGED <<tester, run, mt, others>>

\* 'close': the socket emits nothing more
RequestClose ==
  /\ rq.pc = "open"
  /\ rq.ended \/ rq.destroyed
  /\ rq' = [rq EXCEPT !.pc = "closed"]
  /\ UNCHANGED <<tester, run, mt, others>>

\* the batch tester's healthCheck: `return result.success`, false from its catch
healthCheckReturn ==
  /\ rq.kind = "healthCheck"
  /\ rq.promise # "pending"
  /\ rq.ret = "none"
  /\ rq' = [rq EXCEPT !.ret = IF rq.promise = "resolved" /\ rq.value.success THEN "true" ELSE "false"]
  /\ UNCHANGED <<tester, run, mt, others>>

\* ------------------------------------------- runPerformanceTest: the metrics
\* Latencies are whole numbers of time units; the average is kept as the
\* fraction sum / length and compared by cross-multiplication.
MaxSample == 21

LatencyValues == {1, 2, 3}

\* what JavaScript gives for an index outside the array
Undefined == -1

RECURSIVE Insert(_, _)
Insert(sorted, x) ==
  IF sorted = <<>> THEN <<x>>
  ELSE IF x - Head(sorted) < 0 THEN <<x>> \o sorted
  ELSE <<Head(sorted)>> \o Insert(Tail(sorted), x)

\* faulty variant of SortAscending: the array is left as it is
SortSkipped(seq) == seq

\* latencies.sort((a, b) => a - b)
RECURSIVE SortAscending(_)
SortAscending(seq) ==
  IF seq = <<>> THEN <<>> ELSE Insert(SortAscending(Tail(seq)), Head(seq))

\* latencies.reduce((sum, lat) => sum + lat, 0)
RECURSIVE Sum(_)
Sum(seq) == IF seq = <<>> THEN 0 ELSE Head(seq) + Sum(Tail(seq))

\* arr[i] with JavaScript's index from 0
At(arr, i) == IF i >= 0 /\ i < Len(arr) THEN arr[i + 1] ELSE Undefined

\* faulty variant of Average: divides by one more than the length
AverageOffByOne(sorted) == [num |-> Sum(sorted), den |-> Len(sorted) + 1]

\* sum / latencies.length, NaN (0/0) for an empty array
Average(sorted) == [num |-> Sum(sorted), den |-> Len(sorted)]

\* faulty variant of P95Index: rounds up
P95IndexCeil(len) == (len * 95 + 99) \div 100

\* Math.floor(latencies.length * 0.95): the double nearest to 0.95 is below
\* 0.95 by less than half an ulp of any product, so the product of a length
\* that makes 0.95 * len whole rounds to that whole number and the floor is
\* the exact floor of 95 * len / 100
P95Index(len) == (len * 95) \div 100

\* the metrics of lines 466-470 from the array as sort() left it
LatencyMetrics(sorted) ==
  [averageLatency |-> Average(sorted),
   minLatency |-> At(sorted, 0),
   maxLatency |-> At(sorted, Len(sorted) - 1),
   p95Latency |-> At(sorted, P95Index(Len(sorted)))]

IsNaN(q) == q.den = 0

NoMetrics ==
  [averageLatency |-> [num |-> 0, den |-> 0], minLatency |-> Undefined,
   maxLatency |-> Undefined, p95Latency |-> Undefined]

IdleMetrics == [pc |-> "idle", sample |-> <<>>, latencies |-> <<>>, metrics |-> NoMetrics]

Rep(x, k) == [i \in 1..k |-> x]

\* the samples followed: every array of up to 3 latencies, and the arrays of
\* up to MaxSample latencies made of a run of one value and a run of another
Samples ==
  UNION {[1..len -> LatencyValues] : len \in 1..3}
    \cup UNION {{Rep(a, k) \o Rep(b, len - k) : a \in LatencyValues, b \in LatencyValues, k \in 0..len}
                : len \in 1..MaxSample}

\* latencies.sort(...) sorts the array in place
sortLatencies ==
  /\ mt.pc = "collected"
  /\ mt' = [mt EXCEPT !.pc = "sorted", !.latencies = SortAscending(@)]
  /\ UNCHANGED <<tester, rq, run, others>>

\* average, min, max and p95 are read from the sorted array
readMetrics ==
  /\ mt.pc = "sorted"
  /\ mt' = [mt EXCEPT !.pc = "computed", !.metrics = LatencyMetrics(mt.latencies)]
  /\ UNCHANGED <<tester, rq, run, others>>

\* ------------------------------------------- runPerformanceTest: the load run
\* One load run: the workers (sendConcurrentRequests) of one call, the
\* requests they issue and the shared counters. The code runs 20 workers with
\* batches of 50; the run is followed with MaxWorkers workers, batches of
\* MaxBatchSize and at most MaxIssued requests, on a clock of MaxDuration
\* ticks. The batch tester's runPerformanceTest is the same code with
\* processBatch written out in place. A step of a worker is one loop
\* iteration or one continuation after an await; sendRequest never rejects,
\* so Promise.all(batch) resolves once every request of the batch has settled.
MaxWorkers == 2
MaxBatchSize == 2
MaxIssued == 3
MaxDuration == 2

WorkerIds == 1..MaxWorkers

IdleWorker == [pc |-> "idle", batch |-> <<>>]

NoResult ==
  [totalRequests |-> 0, errorRate |-> [num |-> 0, den |-> 1], metrics |-> NoMetrics]

IdleRun ==
  [pc |-> "idle", now |-> 0, endTime |-> 0, up |-> TRUE, reqs |-> <<>>,
   workers |-> [w \in WorkerIds |-> IdleWorker],
   totalRequests |-> 0, successRequests |-> 0, errorRequests |-> 0, latencies |-> <<>>,
   result |-> NoResult, attempt |-> "none"]

\* faulty variant of ClockBeforeEnd: the loop never looks at the clock
ClockIgnored(r) == TRUE

\* `while (performance.now() < endTime)`
ClockBeforeEnd(r) == r.now < r.endTime

\* delayMs from the progress of the run: 2 past 80 %, 1 past 50 %, else 0
DelayMs(r) ==
  IF r.endTime = 0 THEN 0
  ELSE IF 10 * r.now > 8 * r.endTime THEN 2
  ELSE IF 10 * r.now > 5 * r.endTime THEN 1
  ELSE 0

\* faulty variant of CountResult: the latency of a failed request is kept too
CountResultKeepsAll(r, id) ==
  [r EXCEPT !.totalRequests = @ + 1,
            !.successRequests = IF r.reqs[id].success THEN @ + 1 ELSE @,
            !.errorRequests = IF r.reqs[id].success THEN @ ELSE @ + 1,
            !.latencies = Append(@, r.reqs[id].latency),
            !.reqs[id].counted = @ + 1]

\* the body of processBatch's forEach for one result
CountResult(r, id) ==
  [r EXCEPT !.totalRequests = @ + 1,
            !.successRequests = IF r.reqs[id].success THEN @ + 1 ELSE @,
            !.errorRequests = IF r.reqs[id].success THEN @ ELSE @ + 1,
            !.latencies = IF r.reqs[id].success THEN Append(@, r.reqs[id].latency) ELSE @,
            !.reqs[id].counted = @ + 1]

\* processBatch(results)
RECURSIVE processBatch(_, _)
processBatch(r, results) ==
  IF results = <<>> THEN r ELSE processBatch(CountResult(r, Head(results)), Tail(results))

\* Promise.all(batch) has resolved
BatchSettled(r, ids) == \A i \in 1..Len(ids) : r.reqs[ids[i]].state = "settled"

\* entry of runPerformanceTest(config, testDuration): the workers are started
runPerformanceTest(testDuration) ==
  /\ run.pc = "idle"
  /\ run' = [IdleRun EXCEPT !.pc = "running", !.endTime = testDuration,
                            !.workers = [w \in WorkerIds |-> [pc |-> "loop", batch |-> <<>>]]]
  /\ UNCHANGED <<tester, rq, mt, others>>

\* performance.now() grows
ClockTick ==
  /\ run.pc = "running"
  /\ run.now < run.endTime
  /\ run' = [run EXCEPT !.now = @ + 1]
  /\ UNCHANGED <<tester, rq, mt, others>>

\* the target stops answering
TargetDown ==
  /\ run.pc = "running"
  /\ run.up
  /\ run' = [run EXCEPT !.up = FALSE]
  /\ UNCHANGED <<tester, rq, mt, others>>

\* a request's promise resolves (response, error or timeout); only a target
\* that answers gives success
settleRequest(id) ==
  /\ run.pc = "running"
  /\ run.reqs[id].state = "inflight"
  /\ \E ok \in (IF run.up THEN BOOLEAN ELSE {FALSE}) :
       run' = [run EXCEPT !.reqs[id].state = "settled", !.reqs[id].success = ok,
                          !.reqs[id].latency = run.now - run.reqs[id].issuedAt + 1]
  /\ UNCHANGED <<tester, rq, mt, others>>

\* faulty variant of BatchFull: the batch is never awaited inside the loop
BatchFullNever(pushed) == FALSE

\* `if (batch.length >= batchSize)`
BatchFull(pushed) == Len(pushed) >= MaxBatchSize

\* one iteration of the while loop up to its first await: a request is
\* issued and pushed on the batch
workerIssue(w) ==
  /\ run.pc = "running"
  /\ run.workers[w].pc = "loop"
  /\ ClockBeforeEnd(run)
  /\ Len(run.reqs) < MaxIssued
  /\ LET id == Len(run.reqs) + 1
         pushed == Append(run.workers[w].batch, id)
     IN run' = [run EXCEPT
                  !.reqs = Append(@, [state |-> "inflight", success |-> FALSE, latency |-> 0,
                                      issuedAt |-> run.now, counted |-> 0]),
                  !.workers[w] = [pc |-> IF BatchFull(pushed) THEN "awaitBatch"
                                         ELSE IF DelayMs(run) > 0 THEN "sleep" ELSE "loop",
                                  batch |-> pushed]]
  /\ UNCHANGED <<tester, rq, mt, others>>

\* the full batch has settled: processBatch, `batch = []`, then the pauses
workerProcess(w) ==
  /\ run.pc = "running"
  /\ run.workers[w].pc = "awaitBatch"
  /\ BatchSettled(run, run.workers[w].batch)
  /\ LET r == processBatch(run, run.workers[w].batch) IN
       run' = [r EXCEPT !.workers[w] =
                 [pc |-> IF r.totalRequests % 1000 = 0 \/ DelayMs(r) > 0 THEN "sleep" ELSE "loop",
                  batch |-> <<>>]]
  /\ UNCHANGED <<tester, rq, mt, others>>

\* the setTimeout of a pause fires
workerWake(w) ==
  /\ run.pc = "running"
  /\ run.workers[w].pc = "sleep"
  /\ run' = [run EXCEPT !.workers[w].pc = "loop"]
  /\ UNCHANGED <<tester, rq, mt, others>>

\* faulty variant of NeedsDrain: the rest of the batch is dropped
NeedsDrainNever(rest) == FALSE

\* `if (batch.length > 0)` after the loop
NeedsDrain(rest) == Len(rest) > 0

\* the loop condition fails: the worker leaves the loop
workerLeave(w) ==
  /\ run.pc = "running"
  /\ run.workers[w].pc = "loop"
  /\ ~ClockBeforeEnd(run)
  /\ run' = [run EXCEPT !.workers[w].pc = IF NeedsDrain(run.workers[w].batch) THEN "drain" ELSE "done"]
  /\ UNCHANGED <<tester, rq, mt, others>>

\* the rest of the batch has settled and is processed; the worker returns
workerDrain(w) ==
  /\ run.pc = "running"
  /\ run.workers[w].pc = "drain"
  /\ BatchSettled(run, run.workers[w].batch)
  /\ run' = [processBatch(run, run.workers[w].batch) EXCEPT !.workers[w] = [pc |-> "done", batch |-> <<>>]]
  /\ UNCHANGED <<tester, rq, mt, others>>

\* faulty variant of EmptySample: the check is left out
EmptySampleIgnored(latencies) == FALSE

\* `if (latencies.length === 0) throw`
EmptySample(latencies) == Len(latencies) = 0

\* faulty variant of ErrorRate: the division is not guarded
ErrorRateUnguarded(r) == [num |-> r.errorRequests * 100, den |-> r.totalRequests]

\* errorRate = totalRequests > 0 ? (errorRequests / totalRequests) * 100 : 0
ErrorRate(r) ==
  IF r.totalRequests > 0 THEN [num |-> r.errorRequests * 100, den |-> r.totalRequests]
  ELSE [num |-> 0, den |-> 1]

\* Promise.all(testPromises) has resolved: throw for an empty sample, else
\* sort, compute and return
finishRun ==
  /\ run.pc = "running"
  /\ \A w \in WorkerIds : run.workers[w].pc = "done"
  /\ run' = IF EmptySample(run.latencies)
            THEN [run EXCEPT !.pc = "thrown"]
            ELSE [run EXCEPT !.pc = "returned",
                             !.latencies = SortAscending(@),
                             !.result = [totalRequests |-> run.successRequests,
                                         errorRate |-> ErrorRate(run),
                                         metrics |-> LatencyMetrics(SortAscending(run.latencies))]]
  /\ UNCHANGED <<tester, rq, mt, others>>

\* the validity gates of testFramework on what runPerformanceTest returned
GatesFail(result) ==
  \/ result.totalRequests < MinRequests
  \/ result.errorRate.num > MaxErrorRate * result.errorRate.den

\* testFramework after `await this.runPerformanceTest(...)`: the metrics
\* record is returned, or the error goes to the catch block
attemptEnds ==
  /\ run.pc \in {"returned", "thrown"}
  /\ run.attempt = "none"
  /\ run' = [run EXCEPT !.attempt = IF run.pc = "thrown" \/ GatesFail(run.result)
                                    THEN "failed" ELSE "record"]
  /\ UNCHANGED <<tester, rq, mt, others>>

\* ------------------------------- runPerformanceTest: the start of a load run
\* The start of a load run with the numbers of the code. Array.from(...)
\* calls sendConcurrentRequests() once per worker; each call runs without a
\* suspension until its first await, so the workers start one after the
\* other and no request settles before the last of them has reached an
\* await. The clock is followed by its phase: "early" while progress <= 0.5
\* (delayMs = 0), "late" while the loop still runs with a delay, "ended"
\* once performance.now() >= endTime.
concurrency == 20
batchSize == 50

\* "使用10个并发连接进行压力测试" of README-universal-tester.md
DocumentedConnections == 10

IdleScale == [pc |-> "idle", phase |-> "early", started |-> 0, batchLen |-> 0, inflight |-> 0]

\* runPerformanceTest(config, testDuration) up to Array.from
scRun(testDuration) ==
  /\ sc.pc = "idle"
  /\ sc' = [IdleScale EXCEPT !.pc = "starting",
                             !.phase = IF testDuration > 0 THEN "early" ELSE "ended"]
  /\ UNCHANGED <<tester, rq, run, mt, k6, bench, rep>>

\* performance.now() grows while the workers start
scClock ==
  /\ sc.pc = "starting"
  /\ sc.phase # "ended"
  /\ sc' = [sc EXCEPT !.phase = IF @ = "early" THEN "late" ELSE "ended"]
  /\ UNCHANGED <<tester, rq, run, mt, k6, bench, rep>>

\* the worker being started pushes a request; it reaches its first await
\* when the batch is full (Promise.all) or a delay is due (setTimeout)
scPush ==
  /\ sc.pc = "starting"
  /\ sc.started < concurrency
  /\ sc.phase # "ended"
  /\ LET len == sc.batchLen + 1
         awaits == len >= batchSize \/ sc.phase = "late"
     IN sc' = [sc EXCEPT !.inflight = @ + 1,
                         !.batchLen = IF awaits THEN 0 ELSE len,
                         !.started = IF awaits THEN @ + 1 ELSE @]
  /\ UNCHANGED <<tester, rq, run, mt, k6, bench, rep>>

\* the loop condition fails for the worker being started: it awaits the
\* rest of its batch or returns
scLeave ==
  /\ sc.pc = "starting"
  /\ sc.started < concurrency
  /\ sc.phase = "ended"
  /\ sc' = [sc EXCEPT !.batchLen = 0, !.started = @ + 1]
  /\ UNCHANGED <<tester, rq, run, mt, k6, bench, rep>>

\* every worker has been started: `await Promise.all(testPromises)`
scStarted ==
  /\ sc.pc = "starting"
  /\ sc.started = concurrency
  /\ sc' = [sc EXCEPT !.pc = "started"]
  /\ UNCHANGED <<tester, rq, run, mt, k6, bench, rep>>

\* ----------------------------------------------------------- run-k6-tests.js
\* One call of runFrameworkTest: startFrameworkServer, waitForPort, the k6
\* process and stopServer. The server process is followed with its `killed`
\* flag as ChildProcess keeps it: kill() sets it when the signal was
\* delivered and leaves it alone once the process has exited.
PortCheckRetries == 10

IdleK6 ==
  [pc |-> "idle", server |-> "null", os |-> "none", killed |-> FALSE, sigs |-> <<>>,
   ignoresTerm |-> FALSE, started |-> FALSE, startTimer |-> FALSE, retries |-> 0,
   after |-> "none", stopPc |-> "none", closeListener |-> FALSE, stopTimer |-> FALSE,
   promise |-> "pending"]

\* server.kill(sig)
ServerKill(r, sig) ==
  [r EXCEPT !.sigs = Append(@, sig),
            !.killed = IF r.os = "running" THEN TRUE ELSE @]

\* the process ends on the signals it has received
Fatal(r) ==
  \E i \in 1..Len(r.sigs) : r.sigs[i] = "SIGKILL" \/ (r.sigs[i] = "SIGTERM" /\ ~r.ignoresTerm)

\* stopServer(server, frameworkName) up to the end of its executor
StopServerEntry(r) ==
  IF r.server = "null" \/ r.killed
  THEN [r EXCEPT !.stopPc = "resolved"]
  ELSE [ServerKill(r, "SIGTERM") EXCEPT !.stopPc = "wait", !.closeListener = TRUE,
                                        !.stopTimer = TRUE]

\* runFrameworkTest(framework, config): spawn of the server; a failed spawn
\* emits 'error', startFrameworkServer rejects and the catch block, with
\* server still null, rejects
runFrameworkTest(ignores) ==
  /\ k6.pc = "idle"
  /\ \E ok \in BOOLEAN :
       k6' = IF ok
             THEN [IdleK6 EXCEPT !.pc = "starting", !.os = "running", !.ignoresTerm = ignores,
                                 !.startTimer = TRUE]
             ELSE [IdleK6 EXCEPT !.pc = "settled", !.os = "failed", !.startTimer = TRUE,
                                 !.promise = "rejected"]
  /\ UNCHANGED <<tester, rq, run, mt, sc, bench, rep>>

\* the server prints its start-up line: resolve(server), `server = await ...`
serverStarted ==
  /\ k6.pc = "starting"
  /\ k6.os = "running"
  /\ k6' = [k6 EXCEPT !.started = TRUE, !.server = "set", !.pc = "waitPort"]
  /\ UNCHANGED <<tester, rq, run, mt, sc, bench, rep>>

\* the 20 s timer of startFrameworkServer: without a start-up line it kills
\* the server and rejects; the catch block, with server still null, rejects
startTimeout ==
  /\ k6.startTimer
  /\ k6' = IF k6.started
           THEN [k6 EXCEPT !.startTimer = FALSE]
           ELSE [ServerKill(k6, "SIGTERM") EXCEPT
                   !.startTimer = FALSE,
                   !.pc = IF k6.pc = "starting" THEN "settled" ELSE @,
                   !.promise = IF k6.pc = "starting" THEN "rejected" ELSE @]
  /\ UNCHANGED <<tester, rq, run, mt, sc, bench, rep>>

\* 'close' of the server process: the listener of stopServer resolves
ServerClosed(r) ==
  [r EXCEPT !.os = "exited",
            !.stopPc = IF r.closeListener /\ @ = "wait" THEN "resolved" ELSE @]

\* the server crashes by itself
serverCrash ==
  /\ k6.os = "running"
  /\ ~Fatal(k6)
  /\ k6' = ServerClosed(k6)
  /\ UNCHANGED <<tester, rq, run, mt, sc, bench, rep>>

\* the server ends on a signal it does not ignore
serverDies ==
  /\ k6.os = "running"
  /\ Fatal(k6)
  /\ k6' = ServerClosed(k6)
  /\ UNCHANGED <<tester, rq, run, mt, sc, bench, rep>>

\* one curl of waitForPort: success resolves; the failure that uses up the
\* retries rejects, and the catch block stops the server before it rejects
portCheck ==
  /\ k6.pc = "waitPort"
  /\ \E ok \in (IF k6.os = "running" THEN BOOLEAN ELSE {FALSE}) :
       k6' = IF ok THEN [k6 EXCEPT !.pc = "k6"]
             ELSE IF k6.retries + 1 >= PortCheckRetries
             THEN [StopServerEntry(k6) EXCEPT !.retries = @ + 1, !.pc = "stopping",
                                              !.after = "rejected"]
             ELSE [k6 EXCEPT !.retries = @ + 1]
  /\ UNCHANGED <<tester, rq, run, mt, sc, bench, rep>>

\* k6 ends: 'close' with its exit code, or 'error'; both handlers await
\* stopServer first
k6Ends ==
  /\ k6.pc = "k6"
  /\ \E event \in {"close 0", "close 1", "error"} :
       k6' = [StopServerEntry(k6) EXCEPT
                !.pc = "stopping",
                !.after = IF event = "close 0" THEN "resolved" ELSE "rejected"]
  /\ UNCHANGED <<tester, rq, run, mt, sc, bench, rep>>

\* the 5 s timer of stopServer: `if (!server.killed) { server.kill('SIGKILL'); resolve() }`
stopServerTimeout ==
  /\ k6.stopTimer
  /\ k6' = IF ~k6.killed
           THEN [ServerKill(k6, "SIGKILL") EXCEPT !.stopTimer = FALSE, !.stopPc = "resolved"]
           ELSE [k6 EXCEPT !.stopTimer = FALSE]
  /\ UNCHANGED <<tester, rq, run, mt, sc, bench, rep>>

\* `await stopServer(...)` returns: resolve() or reject(...)
afterStopServer ==
  /\ k6.pc = "stopping"
  /\ k6.stopPc = "resolved"
  /\ k6' = [k6 EXCEPT !.pc = "settled", !.promise = k6.after]
  /\ UNCHANGED <<tester, rq, run, mt, sc, bench, rep>>

\* ------------------------------------------------------- K6BenchmarkRunner
\* One call of K6BenchmarkRunner.runBenchmark with the ServerManager it
\* owns. Of every target the state of the server process the runner spawned
\* is kept ("none" before the spawn, "failed" for a spawn that failed,
\* "running", "signalled" once a signal has been sent to it) and whether the
\* servers map holds it.
MaxBenchTargets == 3

benchFrameworkConfigs == SubSeq(AllBatchConfigs, 1, MaxBenchTargets)

BenchNames == {benchFrameworkConfigs[i] : i \in 1..Len(benchFrameworkConfigs)}

IdleBench ==
  [pc |-> "idle", idx |-> 0, os |-> [n \in BenchNames |-> "none"], servers |-> {},
   results |-> <<>>]

\* the end of one iteration of the for loop: the next target, or the
\* finally block after the last one
BenchContinue(b) ==
  IF b.idx < Len(benchFrameworkConfigs)
  THEN [b EXCEPT !.pc = "start", !.idx = @ + 1]
  ELSE [b EXCEPT !.pc = "finally"]

\* results.push({ framework: config.name, ..., success: false, error })
BenchFailure(b, error) ==
  [b EXCEPT !.results = Append(@, [framework |-> benchFrameworkConfigs[b.idx],
                                   success |-> FALSE, error |-> error])]

runBenchmark ==
  /\ bench.pc = "idle"
  /\ bench' = BenchContinue(IdleBench)
  /\ UNCHANGED <<tester, rq, run, mt, sc, k6, rep>>

\* `await this.serverManager.startFrameworkServer(config)`: the spawn and
\* servers.set; then the start-up line (true), a spawn error (false) or the
\* 20 s timer, which kills the server (false)
benchStartServer ==
  /\ bench.pc = "start"
  /\ LET n == benchFrameworkConfigs[bench.idx]
         tracked == [bench EXCEPT !.servers = @ \cup {n}]
     IN \E outcome \in {"started", "error", "timeout"} :
          bench' = CASE outcome = "started" -> [tracked EXCEPT !.os[n] = "running", !.pc = "ready"]
                     [] outcome = "error" ->
                          BenchContinue(BenchFailure([tracked EXCEPT !.os[n] = "failed"],
                                                     "start"))
                     [] outcome = "timeout" ->
                          BenchContinue(BenchFailure([tracked EXCEPT !.os[n] = "signalled"],
                                                     "start"))
  /\ UNCHANGED <<tester, rq, run, mt, sc, k6, rep>>

\* `await this.serverManager.waitForServerReady(config.port)`
benchWaitReady ==
  /\ bench.pc = "ready"
  /\ \E serverReady \in BOOLEAN :
       bench' = IF serverReady THEN [bench EXCEPT !.pc = "k6"]
                ELSE BenchContinue(BenchFailure(bench, "ready"))
  /\ UNCHANGED <<tester, rq, run, mt, sc, k6, rep>>

\* `await this.runK6Test(config.name, config.port)`, results.push(result)
benchK6 ==
  /\ bench.pc = "k6"
  /\ \E success \in BOOLEAN :
       bench' = BenchContinue([bench EXCEPT !.results =
                  Append(@, [framework |-> benchFrameworkConfigs[bench.idx],
                             success |-> success, error |-> IF success THEN "" ELSE "k6"])])
  /\ UNCHANGED <<tester, rq, run, mt, sc, k6, rep>>

\* finally: stopAllServers sends SIGTERM to every server of the map and
\* clears the map; `return results`
benchFinally ==
  /\ bench.pc = "finally"
  /\ bench' = [bench EXCEPT
                 !.pc = "returned",
                 !.os = [n \in BenchNames |->
                           IF n \in bench.servers /\ bench.os[n] = "running"
                           THEN "signalled" ELSE bench.os[n]],
                 !.servers = {}]
  /\ UNCHANGED <<tester, rq, run, mt, sc, k6, rep>>

\* ------------------------------------------------- the batch tester's reports
\* runBatchTest after its loop: the results array, in the order in which the
\* targets were tested, is handed to saveSummaryResults and
\* saveComparisonReport and then returned. A result is followed by the
\* fields the reports sort by.
MaxResults == 3

MetricValues == {1, 2}

\* b.requestsPerSecond - a.requestsPerSecond, a.averageLatency -
\* b.averageLatency, a.coldStartTime - b.coldStartTime
Compare(by, a, b) ==
  CASE by = "byRPS" -> b.requestsPerSecond - a.requestsPerSecond
    [] by = "byLatency" -> a.averageLatency - b.averageLatency
    [] by = "byColdStart" -> a.coldStartTime - b.coldStartTime

RECURSIVE InsertResult(_, _, _)
InsertResult(by, sorted, x) ==
  IF sorted = <<>> THEN <<x>>
  ELSE IF Compare(by, x, Head(sorted)) <= 0 THEN <<x>> \o sorted
  ELSE <<Head(sorted)>> \o InsertResult(by, Tail(sorted), x)

\* Array.prototype.sort with a compare function: stable, and in place (the
\* caller's array is the one that ends up sorted)
RECURSIVE SortResults(_, _)
SortResults(by, arr) ==
  IF arr = <<>> THEN <<>> ELSE InsertResult(by, SortResults(by, Tail(arr)), Head(arr))

Frameworks(arr) == [i \in 1..Len(arr) |-> arr[i].framework]

\* the arrays of results a batch test can end its loop with: one result for
\* each of the first targets, in the order of the configuration
ResultLists ==
  UNION {{[i \in 1..len |-> [framework |-> AllBatchConfigs[i], requestsPerSecond |-> rps[i],
                             averageLatency |-> lat[i], coldStartTime |-> cold[i]]]
            : rps \in [1..len -> MetricValues], lat \in [1..len -> MetricValues],
              cold \in [1..len -> MetricValues]}
         : len \in 0..MaxResults}

NoSummary == [results |-> <<>>, byRPS |-> <<>>, byLatency |-> <<>>, byColdStart |-> <<>>]

IdleReports ==
  [pc |-> "idle", tested |-> <<>>, results |-> <<>>, saveComparisonReport |-> FALSE,
   summary |-> NoSummary, table |-> <<>>, ret |-> <<>>]

\* `if (results.length === 0) return results`
returnNoResults ==
  /\ rep.pc = "collected"
  /\ rep.results = <<>>
  /\ rep' = [rep EXCEPT !.pc = "returned", !.ret = rep.results]
  /\ UNCHANGED <<tester, rq, run, mt, sc, k6, bench>>

\* saveSummaryResults(results): results.map(...), then the three rankings,
\* each `results.sort(...).map(...)` on the array that was passed in
saveSummaryResults ==
  /\ rep.pc = "collected"
  /\ rep.results # <<>>
  /\ LET byRPS == SortResults("byRPS", rep.results)
         byLatency == SortResults("byLatency", byRPS)
         byColdStart == SortResults("byColdStart", byLatency)
     IN rep' = [rep EXCEPT !.pc = "summary",
                           !.summary = [results |-> Frameworks(rep.results),
                                        byRPS |-> Frameworks(byRPS),
                                        byLatency |-> Frameworks(byLatency),
                                        byColdStart |-> Frameworks(byColdStart)],
                           !.results = byColdStart]
  /\ UNCHANGED <<tester, rq, run, mt, sc, k6, bench>>

\* saveComparisonReport(results): nothing when the option is off; the
\* rankings sort copies ([...results]); the detailed-data table has one row
\* per element of results, in the order of the array
saveComparisonReport ==
  /\ rep.pc = "summary"
  /\ rep' = [rep EXCEPT !.pc = "comparison",
                        !.table = IF rep.saveComparisonReport THEN Frameworks(rep.results) ELSE @]
  /\ UNCHANGED <<tester, rq, run, mt, sc, k6, bench>>

\* printComparisonReport(results) sorts copies; `return results`
returnResults ==
  /\ rep.pc = "comparison"
  /\ rep' = [rep EXCEPT !.pc = "returned", !.ret = rep.results]
  /\ UNCHANGED <<tester, rq, run, mt, sc, k6, bench>>

\* ------------------------------------------------------------ specification
OthersAtRest == sc = IdleScale /\ k6 = IdleK6 /\ bench = IdleBench /\ rep = IdleReports

Init ==
  /\ procs = <<>>
  /\ serverProcesses = [n \in Names |-> 0]
  /\ tf = [n \in Names |-> IdleTask]
  /\ all = IdleAll
  /\ stop = IdleStop
  /\ cl = IdleCleanup
  /\ client = [pc |-> "idle", n |-> frameworkConfigs[1], calls |-> 0, prevStop |-> FALSE]
  /\ available \in SUBSET Names
  /\ batch = IdleBatch
  /\ rq = IdleRequest
  /\ run = IdleRun
  /\ mt = IdleMetrics
  /\ OthersAtRest

Next ==
  \/ \E p \in Pids : ProcListen(p) /\ UNCHANGED parts
  \/ \E p \in Pids : ExitEvent(p) /\ UNCHANGED parts
  \/ \E p \in Pids : checkServerReady(p) /\ UNCHANGED parts
  \/ \E n \in Names : tfAttempt(n) /\ UNCHANGED parts
  \/ \E n \in Names : startFrameworkServer(n) /\ UNCHANGED parts
  \/ \E n \in Names : tfAwaitStart(n) /\ UNCHANGED parts
  \/ \E n \in Names : tfLoad(n) /\ UNCHANGED parts
  \/ \E n \in Names : tfCatch(n) /\ UNCHANGED parts
  \/ cleanupTimeout /\ UNCHANGED parts
  \/ allCall /\ UNCHANGED parts
  \/ allAwait /\ UNCHANGED parts
  \/ allCleaned /\ UNCHANGED parts
  \/ \E p \in Pids : stopTimeout(p) /\ UNCHANGED parts
  \/ stopClear /\ UNCHANGED parts
  \/ forceCleanupProcesses /\ UNCHANGED parts
  \/ \E n \in Names, mr \in MaxRetriesArgs, ms \in ManualStartArgs : CallTestFramework(n, mr, ms) /\ UNCHANGED parts
  \/ ReturnTestFramework /\ UNCHANGED parts
  \/ \E ms \in ManualStartArgs : CallTestAllFrameworks(ms) /\ UNCHANGED parts
  \/ ReturnTestAllFrameworks /\ UNCHANGED parts
  \/ CallStopAllServers /\ UNCHANGED parts
  \/ ReturnStopAllServers /\ UNCHANGED parts
  \/ CallRunFullTest /\ UNCHANGED parts
  \/ runFullTestFinally /\ UNCHANGED parts
  \/ ReturnRunFullTest /\ UNCHANGED parts
  \/ batchCall /\ UNCHANGED parts
  \/ \E n \in BatchNames : batchHealthCheck(n) /\ UNCHANGED parts
  \/ \E n \in BatchNames : batchLoad(n) /\ UNCHANGED parts
  \/ batchAwait /\ UNCHANGED parts
  \/ CallRunBatchTest /\ UNCHANGED parts
  \/ ReturnRunBatchTest /\ UNCHANGED parts

Spec == Init /\ [][Next]_vars

\* the tester at rest, as constructed
TesterAtRest ==
  /\ procs = <<>>
  /\ serverProcesses = [n \in Names |-> 0]
  /\ tf = [n \in Names |-> IdleTask]
  /\ all = IdleAll
  /\ stop = IdleStop
  /\ cl = IdleCleanup
  /\ client = [pc |-> "idle", n |-> frameworkConfigs[1], calls |-> 0, prevStop |-> FALSE]
  /\ available = Names
  /\ batch = IdleBatch

\* one request, from the call to the last event of its socket
InitRequest ==
  TesterAtRest /\ rq = IdleRequest /\ run = IdleRun /\ mt = IdleMetrics /\ OthersAtRest

NextRequest ==
  \/ \E kind \in RequestKinds : CallRequest(kind)
  \/ RequestTick
  \/ \E status \in StatusCodes : ResponseCallback(status)
  \/ ResponseEnd
  \/ ErrorEvent
  \/ TimeoutEvent
  \/ RequestClose
  \/ healthCheckReturn

SpecRequest == InitRequest /\ [][NextRequest]_vars

\* one load run
InitLoad ==
  TesterAtRest /\ rq = IdleRequest /\ run = IdleRun /\ mt = IdleMetrics /\ OthersAtRest

NextLoad ==
  \/ \E testDuration \in 0..MaxDuration : runPerformanceTest(testDuration)
  \/ ClockTick
  \/ TargetDown
  \/ \E id \in 1..Len(run.reqs) : settleRequest(id)
  \/ \E w \in WorkerIds : workerIssue(w)
  \/ \E w \in WorkerIds : workerProcess(w)
  \/ \E w \in WorkerIds : workerWake(w)
  \/ \E w \in WorkerIds : workerLeave(w)
  \/ \E w \in WorkerIds : workerDrain(w)
  \/ finishRun
  \/ attemptEnds

SpecLoad == InitLoad /\ [][NextLoad]_vars

\* the clock runs, timers fire, every request settles (its timeout at the
\* latest) and the event loop runs every continuation that is ready
SpecLoadFair == SpecLoad /\ WF_vars(NextLoad)

\* the metrics of one collected sample
InitMetrics ==
  /\ TesterAtRest /\ rq = IdleRequest /\ run = IdleRun /\ OthersAtRest
  /\ \E sample \in Samples :
       mt = [pc |-> "collected", sample |-> sample, latencies |-> sample, metrics |-> NoMetrics]

NextMetrics ==
  \/ sortLatencies
  \/ readMetrics

SpecMetrics == InitMetrics /\ [][NextMetrics]_vars

\* the start of one load run with the numbers of the code
InitScale ==
  TesterAtRest /\ rq = IdleRequest /\ run = IdleRun /\ mt = IdleMetrics /\ OthersAtRest

NextScale ==
  \/ \E testDuration \in {0, 10} : scRun(testDuration)
  \/ scClock
  \/ scPush
  \/ scLeave
  \/ scStarted

SpecScale == InitScale /\ [][NextScale]_vars

\* the reports of one batch test
InitReports ==
  /\ TesterAtRest /\ rq = IdleRequest /\ run = IdleRun /\ mt = IdleMetrics
  /\ sc = IdleScale /\ k6 = IdleK6 /\ bench = IdleBench
  /\ \E results \in ResultLists, option \in BOOLEAN :
       rep = [IdleReports EXCEPT !.pc = "collected", !.tested = Frameworks(results),
                                 !.results = results, !.saveComparisonReport = option]

NextReports ==
  \/ returnNoResults
  \/ saveSummaryResults
  \/ saveComparisonReport
  \/ returnResults

SpecReports == InitReports /\ [][NextReports]_vars

\* one call of runFrameworkTest of run-k6-tests.js
InitK6 ==
  TesterAtRest /\ rq = IdleRequest /\ run = IdleRun /\ mt = IdleMetrics /\ OthersAtRest

\* what the program and the signalled process do
K6Program ==
  \/ \E ignores \in BOOLEAN : runFrameworkTest(ignores)
  \/ serverStarted
  \/ startTimeout
  \/ serverDies
  \/ portCheck
  \/ k6Ends
  \/ stopServerTimeout
  \/ afterStopServer

NextK6 ==
  \/ K6Program
  \/ serverCrash

SpecK6 == InitK6 /\ [][NextK6]_vars

\* timers fire, child processes end or print, a process that received a
\* signal it does not ignore ends; a server is not bound to crash by itself
SpecK6Fair == SpecK6 /\ WF_vars(K6Program)

\* one call of K6BenchmarkRunner.runBenchmark
InitBench ==
  TesterAtRest /\ rq = IdleRequest /\ run = IdleRun /\ mt = IdleMetrics /\ OthersAtRest

NextBench ==
  \/ runBenchmark
  \/ benchStartServer
  \/ benchWaitReady
  \/ benchK6
  \/ benchFinally

SpecBench == InitBench /\ [][NextBench]_vars


\* ------------------------------------------------------------------ claims
Range(seq) == {seq[i] : i \in 1..Len(seq)}

Min(a, b) == IF a <= b THEN a ELSE b

\* attempts a testFramework call has completed or is in
AttemptsMade(t) == IF t.ret.ok THEN t.attempt ELSE t.attempt - 1

\* position of a target in the configuration order
RECURSIVE ConfigPos(_, _)
ConfigPos(seq, x) == IF seq = <<>> \/ Head(seq) = x THEN 1 ELSE 1 + ConfigPos(Tail(seq), x)

\* C1: in automatic mode (manualStart = false) testAllFrameworks performs at
\* least one test attempt for every available target, which starts the
\* target's process, with the default budget of 2 attempts. Stated for the
\* moment testFramework hands its result back to the loop.
C1_AutoModeAttemptsEveryTarget ==
  (all.pc = "await" /\ ~ToBoolean(all.manualStart)) =>
    LET t == tf[availableFrameworks[all.idx]] IN
      /\ ToNumber(t.maxRetries) = DefaultMaxRetries
      /\ t.pc = "done" => (AttemptsMade(t) >= 1 /\ t.proc # 0)

\* a public call made with manualStart = true is running
ManualCallActive ==
  \/ client.pc = "testAllFrameworks" /\ ToBoolean(all.manualStart)
  \/ client.pc = "testFramework" /\ ToBoolean(tf[client.n].manualStart)

\* C2: while a call made with manualStart = true runs, no step of
\* testFramework or testAllFrameworks spawns a process or sends a signal, and
\* every metrics record it returns or collects has coldStartTime = 0.
C2_ManualModeNeverSpawnsOrSignals ==
  [][ManualCallActive =>
       /\ (tf' # tf \/ all' # all) => procs' = procs
       /\ \A n \in Names : (tf'[n].pc = "done" /\ tf'[n].ret.ok) => tf'[n].ret.coldStartTime = 0
       /\ \A i \in 1..Len(all'.results) : all'.results[i].coldStartTime = 0]_vars

\* C3: testFramework never throws (an error of any attempt goes to its catch
\* block), testAllFrameworks never aborts and goes on to the next target
\* after a null result, and its result list changes only when a call
\* returns, by appending exactly the non-null metrics: the list holds the
\* successful targets in configuration order and no null entry.
C3_ErrorsContainedResultsExact ==
  [][/\ \A n \in Names : tf'[n].pc # "thrown"
     /\ all'.pc # "thrown"
     /\ (all.pc = "await" /\ all'.pc # "await") =>
          LET t == tf[availableFrameworks[all.idx]] IN
            /\ all'.results = IF t.ret.ok THEN Append(all.results, t.ret) ELSE all.results
            /\ all.idx < Len(availableFrameworks) => all'.pc \in {"call", "cleanup"}
     /\ all.pc \in {"call", "cleanup"} => all'.results = all.results
     /\ \A i \in 1..Len(all'.results) :
          /\ all'.results[i].ok
          /\ ConfigPos(availableFrameworks, all'.results[i].framework) <= all'.idx
          /\ \A j \in 1..Len(all'.results) :
               i < j => ConfigPos(availableFrameworks, all'.results[i].framework)
                          < ConfigPos(availableFrameworks, all'.results[j].framework)]_vars

\* C3 witness: the first target failed, the loop went on and collected the
\* second target's metrics
C3_Witness ==
  /\ all.pc = "done"
  /\ Len(availableFrameworks) = 2
  /\ Len(all.results) = 1
  /\ all.results[1].framework = availableFrameworks[2]

C5_FailedAttemptKilledAndUntracked ==
  \A n \in Names :
    LET t == tf[n] IN
      (t.pc \notin {"idle", "thrown"} /\ ~ToBoolean(t.manualStart) /\ t.attempt >= 2) =>
        /\ t.proc # 0
        /\ t.pc \in {"attempt", "start"} =>
             (procs[t.proc].sigs # <<>> /\ serverProcesses[n] = 0)
        /\ (t.pc = "done" /\ ~t.ret.ok) =>
             (procs[t.proc].sigs # <<>> /\ serverProcesses[n] = 0)
        /\ t.pc \in {"awaitStart", "ready", "catch"} =>
             /\ serverProcesses[n] = t.proc
             /\ \A q \in Pids : (q # t.proc /\ procs[q].name = n) => q < t.proc

\* C5 witness: the first attempt's process was killed and untracked, the
\* retry has spawned a second process
C5_Witness ==
  \E n \in Names :
    /\ tf[n].pc = "awaitStart"
    /\ tf[n].attempt = 2
    /\ tf[n].proc = 2
    /\ procs[1].name = n
    /\ "SIGKILL" \in Range(procs[1].sigs)

ActiveTasks == {n \in Names : tf[n].pc \notin {"idle", "done", "thrown"}}

ActiveBatchTasks == {n \in BatchNames : batch.tasks[n].pc \notin {"idle", "done"}}

\* C7: targets are tested one at a time: at most one test is running, the
\* loop of testAllFrameworks and of runBatchTest calls testFramework for
\* the next target only when no test is running, and while a
\* testAllFrameworks call made on a fresh tester has a target under test,
\* no readiness poller of another target is still scheduled.
C7_TargetsTestedSequentially ==
  /\ Cardinality(ActiveTasks) <= 1
  /\ all.pc = "call" => ActiveTasks = {}
  /\ all.pc = "await" => ActiveTasks \subseteq {availableFrameworks[all.idx]}
  /\ (all.pc = "await" /\ client.calls = 1) =>
       \A p \in Pids : procs[p].scheduled => procs[p].name = availableFrameworks[all.idx]
  /\ Cardinality(ActiveBatchTasks) <= 1
  /\ batch.pc = "call" => ActiveBatchTasks = {}
  /\ batch.pc = "await" => ActiveBatchTasks \subseteq {batchFrameworkConfigs[batch.idx]}

\* C8: when every closure of stopAllServers has finished waiting (exit seen
\* or 5 s grace period over), each tracked process that has not exited has
\* been sent SIGTERM and then SIGKILL.
C8_GracePeriodEndsWithSigkill ==
  (stop.pc = "wait" /\ stop.pending = {}) =>
    \A n \in Names :
      LET p == serverProcesses[n] IN
        (p # 0 /\ procs[p].os \in Alive) =>
          ("SIGTERM" \in Range(procs[p].sigs) /\ "SIGKILL" \in Range(procs[p].sigs))

\* a stopAllServers call that directly follows a completed one is starting
\* or running
SecondStop ==
  /\ client.prevStop
  /\ \/ client.pc = "stopAllServers"
     \/ client.pc = "idle" /\ client'.pc = "stopAllServers"

\* C9: no step of a stopAllServers call that directly follows a completed
\* stopAllServers sends a signal to any process, and whenever a call is done
\* the tracked-process map is empty.
C9_StopIsIdempotent ==
  [][/\ (SecondStop /\ stop' # stop) =>
          (Len(procs') = Len(procs) /\ \A p \in Pids : procs'[p].sigs = procs[p].sigs)
     /\ stop'.pc = "done" => \A n \in Names : serverProcesses'[n] = 0]_vars

\* C9 witness: a second stopAllServers is done after the first one stopped a
\* process that had been started successfully
C9_Witness ==
  /\ client.prevStop
  /\ client.pc = "stopAllServers"
  /\ stop.pc = "done"
  /\ \E p \in Pids : procs[p].promise = "resolved" /\ "SIGTERM" \in Range(procs[p].sigs)

\* C10: a pending start promise always has its poller scheduled, the poller
\* never runs more than 250 polls, every callback of a pending promise
\* settles it or counts one more poll, it resolves only on a successful
\* poll, the callback that finds the budget used sends SIGTERM and rejects,
\* and testFramework takes a rejection to its catch block, which uses up one
\* attempt.
C10_StartAlwaysSettles ==
  [][/\ \A p \in 1..Len(procs') :
          /\ procs'[p].checkAttempts <= maxAttempts
          /\ procs'[p].promise = "pending" => procs'[p].scheduled
          /\ procs'[p].promise = "resolved" => procs'[p].checkAttempts >= 1
     /\ \A p \in Pids :
          (procs[p].promise = "pending" /\ procs'[p] # procs[p]
             /\ <<procs'[p].os, procs'[p].sigs>> = <<procs[p].os, procs[p].sigs>>) =>
            /\ procs'[p].checkAttempts = procs[p].checkAttempts + 1
            /\ procs'[p].promise = "resolved" => PortOpen(procs, procs[p].name)
            /\ procs'[p].promise # "rejected"
     /\ \A p \in Pids :
          (procs[p].promise = "pending" /\ procs[p].checkAttempts >= maxAttempts
             /\ procs'[p].checkAttempts = procs[p].checkAttempts /\ procs'[p].scheduled # procs[p].scheduled) =>
            (procs'[p].promise = "rejected" /\ procs'[p].sigs = Append(procs[p].sigs, "SIGTERM"))
     /\ \A n \in Names :
          /\ (tf[n].pc = "awaitStart" /\ tf'[n] # tf[n]) =>
               /\ procs[tf[n].proc].promise = "resolved" =>
                    (tf'[n].pc = "ready" /\ tf'[n].coldStartTime = ColdStart(procs[tf[n].proc].checkAttempts))
               /\ procs[tf[n].proc].promise = "rejected" => tf'[n].pc = "catch"
          /\ (tf[n].pc = "catch" /\ tf'[n] # tf[n]) =>
               (tf'[n].pc = "attempt" /\ tf'[n].attempt = tf[n].attempt + 1)]_vars

\* C10 witness: the poller used its whole budget, sent SIGTERM and rejected,
\* and testFramework is in its catch block
C10_Witness ==
  \E n \in Names :
    /\ tf[n].pc = "catch"
    /\ tf[n].proc # 0
    /\ procs[tf[n].proc].checkAttempts = maxAttempts
    /\ procs[tf[n].proc].promise = "rejected"
    /\ procs[tf[n].proc].sigs = <<"SIGTERM">>


\* ------------------------------------------------------------ C11
\* C11: a health check (sendHealthCheck of the universal tester, healthCheck
\* of the batch tester) succeeds exactly when the response status is in
\* 200..499, and a load-test request (sendRequest) succeeds exactly when the
\* status is in 200..299.
C11_SuccessRangesByKind ==
  /\ (rq.kind = "sendHealthCheck" /\ rq.by = "end")
       => (rq.value.success <=> (rq.response >= 200 /\ rq.response <= 499))
  /\ (rq.kind = "sendRequest" /\ rq.by = "end")
       => (rq.value.success <=> (rq.response >= 200 /\ rq.response <= 299))
  /\ (rq.kind = "healthCheck" /\ rq.by = "end" /\ rq.ret # "none")
       => ((rq.ret = "true") <=> (rq.response >= 200 /\ rq.response <= 499))


\* ------------------------------------------------------------ C12
\* C12: a call of sendRequest or sendHealthCheck settles exactly once, by
\* resolving with one record, and never rejects, whichever of response end,
\* error and timeout occur and in whatever order (the error that follows
\* req.destroy() on timeout included): the promise is never rejected, it is
\* resolved from the first event on, its record never changes afterwards, a
\* record decided by error or timeout has success = false, and no request
\* stays pending past its idle timeout or past the close of its socket.
C12_SettlesOnceNeverRejects ==
  [][ /\ rq'.promise # "rejected"
      /\ (rq'.promise = "resolved" <=> rq'.resolves >= 1)
      /\ (rq.promise = "resolved" => (rq'.promise = "resolved" /\ rq'.value = rq.value /\ rq'.by = rq.by))
      /\ (rq'.by \in {"error", "timeout"} => ~rq'.value.success)
      /\ (rq'.pc = "closed" => rq'.promise = "resolved")
      /\ ((rq'.pc = "open" /\ Ms(rq'.elapsed - rq'.idleSince) > Timeout(rq'.kind))
            => rq'.promise = "resolved")
    ]_vars

\* the timeout destroyed the request and the error that follows called
\* resolve a second time: the record is still the one of the timeout
C12_Witness ==
  /\ rq.timedOut /\ rq.errored
  /\ rq.resolves = 2
  /\ rq.promise = "resolved"
  /\ rq.by = "timeout"
  /\ ~rq.value.success
  /\ rq.value.latency = Timeout(rq.kind)


\* ------------------------------------------------------------ C13
\* C13: runPerformanceTest always terminates: no request is issued once the
\* clock has reached endTime, and every run that was started, also one whose
\* target stops answering so that the remaining requests fail, ends with
\* testFramework holding a metrics record or a failure of the attempt.
C13_RunTerminates ==
  /\ [][Len(run'.reqs) > Len(run.reqs) => run.now < run.endTime]_vars
  /\ (run.pc = "running") ~> (run.attempt \in {"record", "failed"})
  /\ (run.pc = "running" /\ ~run.up) ~> (run.attempt \in {"record", "failed"})

\* the target stopped answering in the middle of a run: requests succeeded
\* before, the rest failed, every worker returned and the attempt ended
C13_Witness ==
  /\ ~run.up
  /\ run.now >= run.endTime
  /\ run.successRequests > 0 /\ run.errorRequests > 0
  /\ \A w \in WorkerIds : run.workers[w].pc = "done"
  /\ run.attempt = "failed"


\* ------------------------------------------------------------ C14
\* C14: no request is counted twice, and when runPerformanceTest finishes,
\* by returning or by throwing for an empty sample, every request that was
\* issued has settled and has been counted exactly once, so that
\* totalRequests is the number of requests issued, under every interleaving
\* of the workers.
C14_EveryRequestCountedOnce ==
  /\ \A id \in 1..Len(run.reqs) : run.reqs[id].counted <= 1
  /\ run.pc \in {"returned", "thrown"} =>
       /\ run.totalRequests = Len(run.reqs)
       /\ \A id \in 1..Len(run.reqs) :
            run.reqs[id].state = "settled" /\ run.reqs[id].counted = 1

\* a run that issued as many requests as the bound allows, some in a full
\* batch and one in a remaining batch, has returned
C14_Witness ==
  /\ run.pc = "returned"
  /\ Len(run.reqs) = MaxIssued
  /\ run.totalRequests = MaxIssued
  /\ run.successRequests > 0 /\ run.errorRequests > 0


\* ------------------------------------------------------------ C15
\* C15: at every point of a run totalRequests = successRequests +
\* errorRequests and the latency array has exactly successRequests entries:
\* one for each successful request counted so far and none for a failed one.
C15_CountersAgree ==
  LET counted == {id \in 1..Len(run.reqs) : run.reqs[id].counted > 0}
      succeeded == {id \in counted : run.reqs[id].success}
  IN /\ run.totalRequests = run.successRequests + run.errorRequests
     /\ Len(run.latencies) = run.successRequests
     /\ run.successRequests = Cardinality(succeeded)
     /\ run.errorRequests = Cardinality(counted \ succeeded)

\* in the middle of a run: a batch with a success and a failure has been
\* processed while another request is still in flight
C15_Witness ==
  /\ run.pc = "running"
  /\ run.successRequests = 1 /\ run.errorRequests = 1
  /\ Len(run.latencies) = 1
  /\ \E id \in 1..Len(run.reqs) : run.reqs[id].state = "inflight"


\* ------------------------------------------------------------ C16
\* C16: a run without a successful request, one that issued no request
\* included, makes runPerformanceTest throw and return no record; a record
\* that is returned comes from a non-empty sample and none of its latency
\* fields is undefined or NaN.
C16_EmptySampleThrows ==
  /\ (run.pc \in {"returned", "thrown"} /\ run.successRequests = 0)
       => (run.pc = "thrown" /\ run.result = NoResult /\ run.attempt # "record")
  /\ run.pc = "returned" =>
       /\ run.successRequests > 0
       /\ ~IsNaN(run.result.metrics.averageLatency)
       /\ run.result.metrics.minLatency # Undefined
       /\ run.result.metrics.maxLatency # Undefined
       /\ run.result.metrics.p95Latency # Undefined
       /\ ~IsNaN(run.result.errorRate)

\* every request of the run failed: runPerformanceTest threw and the attempt
\* of testFramework failed
C16_Witness ==
  /\ run.pc = "thrown"
  /\ Len(run.reqs) = MaxIssued
  /\ run.errorRequests = MaxIssued
  /\ run.successRequests = 0
  /\ run.attempt = "failed"


\* ------------------------------------------------------------ C17
\* C17: testFramework returns a metrics record only when the number of
\* requests of the run, successful plus failed, exceeds the floor of 10 and
\* the error rate is under 50 %; otherwise the attempt fails without a record.
C17_RecordOnlyAboveFloorBelowRate ==
  \A n \in Names :
    tf[n].ret.ok =>
      /\ tf[n].ret.totalRequests + tf[n].ret.errorRequests > MinRequests
      /\ tf[n].ret.errorRequests * 100
           < MaxErrorRate * (tf[n].ret.totalRequests + tf[n].ret.errorRequests)


\* ------------------------------------------------------------ C18
\* the array is in ascending order and holds the latencies of the sample
IsSortedSample(arr, sample) ==
  /\ Len(arr) = Len(sample)
  /\ \A i \in 1..Len(arr) : \A j \in i..Len(arr) : arr[i] <= arr[j]
  /\ \A v \in LatencyValues :
       Cardinality({i \in 1..Len(arr) : arr[i] = v})
         = Cardinality({i \in 1..Len(sample) : sample[i] = v})

\* the 0-based index i with i <= len * 0.95 < i + 1
IsFloor95(i, len) == 100 * i <= 95 * len /\ 95 * len < 100 * (i + 1)

\* C18 as stated: for every non-empty sample averageLatency <= p95Latency <=
\* maxLatency, where p95Latency is the element at index floor(len * 0.95) of
\* the sample sorted in ascending order.
C18_AverageBelowP95 ==
  mt.pc = "computed" =>
    /\ IsSortedSample(mt.latencies, mt.sample)
    /\ \E i \in 0..Len(mt.latencies) - 1 :
         IsFloor95(i, Len(mt.latencies)) /\ mt.metrics.p95Latency = mt.latencies[i + 1]
    /\ mt.metrics.averageLatency.num <= mt.metrics.p95Latency * mt.metrics.averageLatency.den
    /\ mt.metrics.p95Latency <= mt.metrics.maxLatency

\* C18, amended: for every non-empty sample p95Latency is the element at
\* index floor(len * 0.95) of the sample sorted in ascending order and
\* minLatency <= p95Latency <= maxLatency; averageLatency <= p95Latency holds
\* for the samples of at most 20 latencies, where that element is the
\* maximum, and can fail for a longer sample.
C18_P95WithinRange ==
  mt.pc = "computed" =>
    /\ IsSortedSample(mt.latencies, mt.sample)
    /\ \E i \in 0..Len(mt.latencies) - 1 :
         IsFloor95(i, Len(mt.latencies)) /\ mt.metrics.p95Latency = mt.latencies[i + 1]
    /\ mt.metrics.minLatency <= mt.metrics.p95Latency
    /\ mt.metrics.p95Latency <= mt.metrics.maxLatency
    /\ Len(mt.latencies) <= 20 =>
         /\ mt.metrics.p95Latency = mt.metrics.maxLatency
         /\ mt.metrics.averageLatency.num
              <= mt.metrics.p95Latency * mt.metrics.averageLatency.den

\* a sample of 21 latencies given out of order, whose p95Latency lies below
\* its maximum and below its average
C18_Witness ==
  /\ mt.pc = "computed"
  /\ Len(mt.sample) = 21
  /\ mt.sample # mt.latencies
  /\ mt.metrics.p95Latency < mt.metrics.maxLatency
  /\ mt.metrics.averageLatency.num > mt.metrics.p95Latency * mt.metrics.averageLatency.den

\* ------------------------------------------------------------ C19
\* C19: for every non-empty sample minLatency <= averageLatency <=
\* maxLatency, where minLatency is the smallest and maxLatency the largest
\* latency of the sample.
C19_AverageBetweenMinAndMax ==
  mt.pc = "computed" =>
    /\ \E i \in 1..Len(mt.sample) : mt.sample[i] = mt.metrics.minLatency
    /\ \E i \in 1..Len(mt.sample) : mt.sample[i] = mt.metrics.maxLatency
    /\ \A i \in 1..Len(mt.sample) :
         mt.metrics.minLatency <= mt.sample[i] /\ mt.sample[i] <= mt.metrics.maxLatency
    /\ ~IsNaN(mt.metrics.averageLatency)
    /\ mt.metrics.minLatency * mt.metrics.averageLatency.den <= mt.metrics.averageLatency.num
    /\ mt.metrics.averageLatency.num <= mt.metrics.maxLatency * mt.metrics.averageLatency.den

\* a sample given out of order whose average lies strictly between its
\* smallest and its largest latency
C19_Witness ==
  /\ mt.pc = "computed"
  /\ mt.sample # mt.latencies
  /\ mt.metrics.minLatency = 1 /\ mt.metrics.maxLatency = 3
  /\ mt.metrics.minLatency * mt.metrics.averageLatency.den < mt.metrics.averageLatency.num
  /\ mt.metrics.averageLatency.num < mt.metrics.maxLatency * mt.metrics.averageLatency.den

\* ------------------------------------------------------------ C20
\* C20: for every sample of length len >= 1 the index floor(len * 0.95) is
\* at most len - 1, so that p95Latency is an element of the array, and
\* p95Latency lies between the median of the sample and its maximum.
C20_P95IndexValid ==
  mt.pc = "computed" =>
    LET len == Len(mt.latencies)
        lower == mt.latencies[((len - 1) \div 2) + 1]
        upper == mt.latencies[(len \div 2) + 1]
    IN /\ len >= 1
       /\ P95Index(len) >= 0 /\ P95Index(len) <= len - 1
       /\ mt.metrics.p95Latency # Undefined
       /\ mt.metrics.p95Latency = mt.latencies[P95Index(len) + 1]
       /\ lower + upper <= 2 * mt.metrics.p95Latency
       /\ mt.metrics.p95Latency <= mt.metrics.maxLatency

\* a sample of 21 latencies: the index is 19, one below the last, and
\* p95Latency lies strictly above the median
C20_Witness ==
  /\ mt.pc = "computed"
  /\ Len(mt.latencies) = 21
  /\ mt.metrics.p95Latency = mt.latencies[20]
  /\ mt.latencies[11] < mt.metrics.p95Latency
  /\ mt.metrics.p95Latency <= mt.metrics.maxLatency

\* ------------------------------------------------------------ C21
\* C21: the error rate of a load run, errorRequests / totalRequests * 100,
\* lies in [0, 100] for every combination of counters a run reaches, and is
\* 0, not a division by zero, when totalRequests is 0; the rate a run returns
\* is that value.
C21_ErrorRateWithinBounds ==
  /\ ~IsNaN(ErrorRate(run))
  /\ ErrorRate(run).den > 0
  /\ 0 <= ErrorRate(run).num
  /\ ErrorRate(run).num <= 100 * ErrorRate(run).den
  /\ run.totalRequests = 0 => ErrorRate(run).num = 0
  /\ run.totalRequests > 0 =>
       ErrorRate(run).num * run.totalRequests = run.errorRequests * 100 * ErrorRate(run).den
  /\ run.pc = "returned" => run.result.errorRate = ErrorRate(run)

\* a run with successes and failures has returned a rate strictly between
\* 0 and 100
C21_Witness ==
  /\ run.pc = "returned"
  /\ run.errorRequests > 0
  /\ run.result.errorRate.num > 0
  /\ run.result.errorRate.num < 100 * run.result.errorRate.den

\* ------------------------------------------------------------ C22
\* C22: when the poll budget of the readiness wait is used up without a
\* successful health check, startFrameworkServer reports the timeout to its
\* caller as a returned value: the poll that finds the budget used does not
\* reject the start promise.
C22_TimeoutIsReturnedNotThrown ==
  [][\A p \in 1..Len(procs) :
       (/\ procs[p].promise = "pending"
        /\ procs[p].checkAttempts >= maxAttempts
        /\ procs[p].scheduled /\ ~procs'[p].scheduled)
         => procs'[p].promise # "rejected"]_vars

\* ------------------------------------------------------------ C24
\* C24: once a start attempt of startFrameworkServer has settled, resolved
\* or rejected, its readiness poller is no longer scheduled: it issues no
\* further health check and sends no further signal.
C24_SettledAttemptStopsPolling ==
  \A p \in Pids : procs[p].promise # "pending" => ~procs[p].scheduled

\* ------------------------------------------------------------ C25
\* C25: when cleanupFramework(name) has completed, the map of tracked
\* processes has no entry for name, whether the process was alive at the
\* call, had been killed, or was never tracked.
C25_CleanupUntracksName ==
  (all.pc = "cleanup" /\ cl.pc = "done")
    => serverProcesses[availableFrameworks[all.idx]] = 0

\* ------------------------------------------------------------ C26
\* C26: when the spawned process exits while its start promise is pending,
\* with any exit code, 0 included, or ended by a signal, the start attempt
\* fails at once: the exit rejects the promise.
C26_ExitBeforeReadyFailsAttempt ==
  [][\A p \in 1..Len(procs) :
       (/\ procs[p].promise = "pending"
        /\ procs[p].os # "exited"
        /\ procs'[p].os = "exited")
         => procs'[p].promise = "rejected"]_vars

\* ------------------------------------------------------------ C23
\* C23: the universal tester drives a target with 10 concurrent connections:
\* a load run has 10 workers and at no time more than 10 requests in flight.
C23_TenConcurrentConnections ==
  /\ sc.started <= DocumentedConnections
  /\ sc.inflight <= DocumentedConnections
  /\ sc.pc = "started" => sc.started = DocumentedConnections

\* ------------------------------------------------------------ C27
\* C27: writing the summary and the comparison report leaves the results
\* list unchanged: the list runBatchTest returns, and the rows of the
\* detailed-data table of the comparison report, are in the order in which
\* the targets were tested, whatever their RPS, latency and cold-start values.
C27_ReportsKeepTestOrder ==
  /\ rep.pc # "idle" => Frameworks(rep.results) = rep.tested
  /\ (rep.pc \in {"comparison", "returned"} /\ rep.saveComparisonReport /\ rep.results # <<>>)
       => rep.table = rep.tested
  /\ rep.pc = "returned" => Frameworks(rep.ret) = rep.tested

\* ------------------------------------------------------------ C28
\* C28: stopServer of run-k6-tests.js always eventually resolves: it sends
\* SIGTERM to a running server and, if the server has not stopped 5 seconds
\* later, sends SIGKILL and resolves, so that runFrameworkTest settles after
\* k6 has ended, also when the server ignores SIGTERM.
C28_StopServerResolves ==
  /\ (k6.stopPc = "wait") ~> (k6.stopPc = "resolved")
  /\ (k6.pc = "stopping") ~> (k6.promise # "pending")

\* ------------------------------------------------------------ C29
\* C29: while runBenchmark runs k6 against one framework, no server that
\* the runner started for another framework is still running without
\* having been stopped: each server is stopped before the next one is
\* started.
C29_OneServerAtATime ==
  bench.pc \in {"ready", "k6"} =>
    \A n \in BenchNames \ {benchFrameworkConfigs[bench.idx]} : bench.os[n] # "running"


\* C30: during a load run no worker has more than batchSize requests
\* outstanding: a worker whose batch is full awaits the whole batch before it
\* issues again, every request in flight is in the current batch of exactly
\* one worker, and so at most concurrency * batchSize requests are in flight.
C30_OutstandingBounded ==
  LET inflight == {id \in 1..Len(run.reqs) : run.reqs[id].state = "inflight"}
      holders(id) == {w \in WorkerIds :
                        \E i \in 1..Len(run.workers[w].batch) : run.workers[w].batch[i] = id}
  IN /\ \A w \in WorkerIds :
          /\ Len(run.workers[w].batch) <= MaxBatchSize
          /\ Len(run.workers[w].batch) = MaxBatchSize => run.workers[w].pc = "awaitBatch"
          /\ Cardinality({id \in inflight : w \in holders(id)}) <= MaxBatchSize
     /\ \A id \in inflight : Cardinality(holders(id)) = 1
     /\ Cardinality(inflight) <= MaxWorkers * MaxBatchSize

\* one worker awaits a full batch whose requests are all in flight while
\* another worker has a request in flight too
C30_Witness ==
  \E w \in WorkerIds, v \in WorkerIds :
    /\ w # v
    /\ run.workers[w].pc = "awaitBatch"
    /\ Len(run.workers[w].batch) = MaxBatchSize
    /\ \A i \in 1..MaxBatchSize : run.reqs[run.workers[w].batch[i]].state = "inflight"
    /\ \E j \in 1..Len(run.workers[v].batch) : run.reqs[run.workers[v].batch[j]].state = "inflight"

====
